---- MODULE Spec2Model ----
(***************************************************************************)
(* Model of broadlink/exceptions.py: the exception classes, the code table *)
(* BROADLINK_EXCEPTIONS, exception(), check_error() and MultipleErrors.    *)
(***************************************************************************)
EXTENDS Integers, Sequences, FiniteSets, TLC

VARIABLES
    BROADLINK_EXCEPTIONS,  \* the module-level dict, code -> <<class, message>>
    byteorder,             \* the host's native byte order, which struct format "h" uses
    pc,                    \* per caller: "idle", or the line of check_error it is at
    frame,                 \* per caller: the locals of its running check_error call
    last,                  \* the most recently completed call: its arguments and outcome
    lists,                 \* the heap of Python list objects, indexed by reference
    input                  \* the arguments the sequential caller was started with

vars == <<BROADLINK_EXCEPTIONS, byteorder, pc, frame, last, lists, input>>

(***************************************************************************)
(* Bounds of the model.                                                    *)
(***************************************************************************)
MaxRawLen == 3   \* longest byte string passed to check_error
MaxLen == 3      \* longest list of errors passed to MultipleErrors

(***************************************************************************)
(* Python values that occur as constructor arguments: int, str and None.   *)
(***************************************************************************)
PyInt(i) == [tag |-> "int", int |-> i, str |-> ""]
PyStr(s) == [tag |-> "str", int |-> 0, str |-> s]
PyNone == [tag |-> "None", int |-> 0, str |-> ""]

\* str(value)
py_str(v) ==
    CASE v.tag = "int" -> ToString(v.int)
      [] v.tag = "str" -> v.str
      [] OTHER -> "None"

\* repr(value)
py_repr(v) ==
    CASE v.tag = "int" -> ToString(v.int)
      [] v.tag = "str" -> "'" \o v.str \o "'"
      [] OTHER -> "None"

\* sep.join(parts)
RECURSIVE join(_, _)
join(sep, parts) ==
    IF Len(parts) = 0 THEN ""
    ELSE IF Len(parts) = 1 THEN parts[1]
    ELSE parts[1] \o sep \o join(sep, Tail(parts))

(***************************************************************************)
(* The classes, in definition order.                                       *)
(***************************************************************************)
Classes ==
    << "BroadlinkException", "MultipleErrors", "AuthenticationError",
       "AuthorizationError", "CommandNotSupportedError", "ConnectionClosedError",
       "StructureAbnormalError", "DeviceOfflineError", "ReadError", "SendError",
       "SSIDNotFoundError", "StorageError", "WriteError", "NetworkTimeoutError",
       "DataValidationError", "UnknownError" >>

\* The fourteen concrete kinds: the thirteen the table uses, and UnknownError.
Kinds == { Classes[i] : i \in 3..Len(Classes) }

\* The classes derived from BroadlinkException, the base included.
BroadlinkClasses == { Classes[i] : i \in 1..Len(Classes) }

\* BroadlinkException.__init__: the attributes of a new instance of class type.
\* id is the object's identity; errors is the reference of the list attribute
\* that only MultipleErrors sets (0: no such attribute).
BroadlinkException___init__(id, type, args) ==
    [ id |-> id,
      type |-> type,
      args |-> args,
      errno |-> IF Len(args) >= 2 THEN args[1] ELSE PyNone,
      strerror |->
        IF Len(args) >= 2
        THEN join(": ", [i \in 1..(Len(args) - 1) |-> py_str(args[i + 1])])
        ELSE IF Len(args) = 1 THEN py_str(args[1])
        ELSE "",
      errors |-> 0 ]

\* BroadlinkException.__str__ with the test "if self.errno:" in place of
\* "if self.errno is not None:".
BroadlinkException___str___truthy(self) ==
    IF self.errno # PyNone /\ self.errno # PyInt(0) /\ self.errno # PyStr("")
    THEN "[Errno " \o py_str(self.errno) \o "] " \o self.strerror
    ELSE self.strerror

\* BroadlinkException.__str__
BroadlinkException___str__(self) ==
    IF self.errno # PyNone
    THEN "[Errno " \o py_str(self.errno) \o "] " \o self.strerror
    ELSE self.strerror

\* MultipleErrors.__str__
MultipleErrors___str__(self) == self.strerror

\* str(self): dispatch on the class.
str(self) ==
    IF self.type = "MultipleErrors"
    THEN MultipleErrors___str__(self)
    ELSE BroadlinkException___str__(self)

\* BroadlinkException.__eq__ without the type test.
BroadlinkException___eq___args_only(self, other) ==
    self.args = other.args

\* BroadlinkException.__eq__
BroadlinkException___eq__(self, other) ==
    self.type = other.type /\ self.args = other.args

(***************************************************************************)
(* The code table.                                                         *)
(***************************************************************************)
TableCodes ==
    { -1, -2, -3, -4, -5, -6, -7, -8, -9, -10, -11,
      -2040, -4000, -4007, -4008, -4009, -4010, -4011, -4012 }

InitialTable ==
    [ c \in TableCodes |->
        CASE c = -1 -> <<"AuthenticationError", "Authentication failed">>
          [] c = -2 -> <<"ConnectionClosedError", "You have been logged out">>
          [] c = -3 -> <<"DeviceOfflineError", "The device is offline">>
          [] c = -4 -> <<"CommandNotSupportedError", "Command not supported">>
          [] c = -5 -> <<"StorageError", "The device storage is full">>
          [] c = -6 -> <<"StructureAbnormalError", "Structure is abnormal">>
          [] c = -7 -> <<"AuthorizationError", "Control key is expired">>
          [] c = -8 -> <<"SendError", "Send error">>
          [] c = -9 -> <<"WriteError", "Write error">>
          [] c = -10 -> <<"ReadError", "Read error">>
          [] c = -11 -> <<"SSIDNotFoundError", "SSID could not be found in AP configuration">>
          [] c = -2040 -> <<"DataValidationError", "Device information is not intact">>
          [] c = -4000 -> <<"NetworkTimeoutError", "Network timeout">>
          [] c = -4007 -> <<"DataValidationError", "Received data packet length error">>
          [] c = -4008 -> <<"DataValidationError", "Received data packet check error">>
          [] c = -4009 -> <<"DataValidationError", "Received data packet information type error">>
          [] c = -4010 -> <<"DataValidationError", "Received encrypted data packet length error">>
          [] c = -4011 -> <<"DataValidationError", "Received encrypted data packet check error">>
          [] c = -4012 -> <<"AuthorizationError", "Device control ID error">> ]

\* exception() with the arguments of the constructor in the wrong order.
exception_swapped(id, err_code) ==
    IF err_code \in DOMAIN BROADLINK_EXCEPTIONS
    THEN BroadlinkException___init__(id, BROADLINK_EXCEPTIONS[err_code][1],
            <<PyStr(BROADLINK_EXCEPTIONS[err_code][2]), PyInt(err_code)>>)
    ELSE BroadlinkException___init__(id, "UnknownError",
            <<PyInt(err_code), PyStr("Unknown error")>>)

\* exception() whose fallback drops the code.
exception_fallback_no_code(id, err_code) ==
    IF err_code \in DOMAIN BROADLINK_EXCEPTIONS
    THEN BroadlinkException___init__(id, BROADLINK_EXCEPTIONS[err_code][1],
            <<PyInt(err_code), PyStr(BROADLINK_EXCEPTIONS[err_code][2])>>)
    ELSE BroadlinkException___init__(id, "UnknownError", <<PyStr("Unknown error")>>)

\* exception(err_code): the new exception object, with identity id.
exception(id, err_code) ==
    IF err_code \in DOMAIN BROADLINK_EXCEPTIONS
    THEN BroadlinkException___init__(id, BROADLINK_EXCEPTIONS[err_code][1],
            <<PyInt(err_code), PyStr(BROADLINK_EXCEPTIONS[err_code][2])>>)
    ELSE BroadlinkException___init__(id, "UnknownError",
            <<PyInt(err_code), PyStr("Unknown error")>>)

(***************************************************************************)
(* struct.unpack("h", error): a short in native byte order, size and       *)
(* alignment.  struct.error when the buffer is not 2 bytes long.           *)
(***************************************************************************)
Signed16(u) == IF u >= 32768 THEN u - 65536 ELSE u

\* struct.unpack that takes the first two bytes of any buffer that has them.
struct_unpack_h_lenient(error, order) ==
    IF Len(error) < 2
    THEN [ok |-> FALSE, value |-> 0]
    ELSE [ok |-> TRUE,
          value |-> IF order = "little"
                    THEN Signed16(error[1] + 256 * error[2])
                    ELSE Signed16(256 * error[1] + error[2])]

struct_unpack_h(error, order) ==
    IF Len(error) # 2
    THEN [ok |-> FALSE, value |-> 0]
    ELSE [ok |-> TRUE,
          value |-> IF order = "little"
                    THEN Signed16(error[1] + 256 * error[2])
                    ELSE Signed16(256 * error[1] + error[2])]

\* The struct.error that struct.unpack raises: not a BroadlinkException.
struct_error(id) ==
    [ id |-> id, type |-> "struct.error",
      args |-> <<PyStr("unpack requires a buffer of 2 bytes")>>,
      errno |-> PyNone, strerror |-> "", errors |-> 0 ]

(***************************************************************************)
(* Hashing.  hash() of an int is the int, except that hash(-1) is -2; the  *)
(* hash of a str is some function of its characters (here its length, so   *)
(* that different strings can collide); a class hashes by identity (here   *)
(* its place in the module); a tuple combines the hashes of its items.     *)
(***************************************************************************)
ClassIndex(type) == CHOOSE i \in 1..Len(Classes) : Classes[i] = type

py_hash(v) ==
    CASE v.tag = "int" -> (IF v.int = -1 THEN -2 ELSE v.int)
      [] v.tag = "str" -> Len(v.str)
      [] OTHER -> 7

RECURSIVE hash_tuple(_, _)
hash_tuple(h, items) ==
    IF Len(items) = 0 THEN h
    ELSE hash_tuple(31 * h + items[1], Tail(items))

\* object.__hash__, which BroadlinkException would have without its own:
\* the hash is the object's identity.
BroadlinkException___hash___identity(self) == self.id

\* BroadlinkException.__hash__: hash((type(self), self.args))
BroadlinkException___hash__(self) ==
    hash_tuple(3, << ClassIndex(self.type),
                     hash_tuple(5, [i \in 1..Len(self.args) |-> py_hash(self.args[i])]) >>)

(***************************************************************************)
(* collections.Counter(errors): a dict in insertion order, modelled as a   *)
(* sequence of [key, count].  A key is found when the hashes agree and the *)
(* objects are identical or equal.                                         *)
(***************************************************************************)
dict_match(key, e) ==
    /\ BroadlinkException___hash__(key) = BroadlinkException___hash__(e)
    /\ (key.id = e.id \/ BroadlinkException___eq__(key, e))

dict_find(counter, e) ==
    LET hits == { i \in 1..Len(counter) : dict_match(counter[i].key, e) }
    IN IF hits = {} THEN 0 ELSE CHOOSE i \in hits : \A j \in hits : i <= j

RECURSIVE Counter_update(_, _)
Counter_update(counter, errors) ==
    IF Len(errors) = 0 THEN counter
    ELSE LET e == errors[1]
             i == dict_find(counter, e)
         IN Counter_update(
                IF i = 0
                THEN Append(counter, [key |-> e, count |-> 1])
                ELSE [counter EXCEPT ![i].count = @ + 1],
                Tail(errors))

Counter(errors) == Counter_update(<<>>, errors)

\* Counter.most_common(): sorted(items, key=count, reverse=True), a stable sort.
RECURSIVE most_common_insert(_, _)
most_common_insert(sorted, item) ==
    IF Len(sorted) = 0 THEN <<item>>
    ELSE IF sorted[1].count >= item.count
         THEN <<sorted[1]>> \o most_common_insert(Tail(sorted), item)
         ELSE <<item>> \o sorted

RECURSIVE most_common_from(_, _)
most_common_from(sorted, items) ==
    IF Len(items) = 0 THEN sorted
    ELSE most_common_from(most_common_insert(sorted, items[1]), Tail(items))

most_common(counter) == most_common_from(<<>>, counter)

\* repr(e) for an exception: BaseException.__repr__, or MultipleErrors.__repr__,
\* which is "MultipleErrors(%r)" % self.errors.
RECURSIVE repr(_, _)
repr(e, heap) ==
    IF e.type = "MultipleErrors"
    THEN "MultipleErrors([" \o
         join(", ", [i \in 1..Len(heap[e.errors]) |-> repr(heap[e.errors][i], heap)])
         \o "])"
    ELSE e.type \o "(" \o
         join(", ", [i \in 1..Len(e.args) |-> py_repr(e.args[i])]) \o ")"

\* Counter.__repr__, which "%s" % counter uses.
Counter___repr__(counter, heap) ==
    IF Len(counter) = 0 THEN "Counter()"
    ELSE LET d == most_common(counter)
         IN "Counter({" \o
            join(", ", [i \in 1..Len(d) |->
                          repr(d[i].key, heap) \o ": " \o ToString(d[i].count)])
            \o "})"

(***************************************************************************)
(* MultipleErrors.__init__: args holds at most the reference of the        *)
(* caller's list.  The result is the new object, the heap with the copy    *)
(* args[0][:] added, and the local counter.                                *)
(***************************************************************************)
\* MultipleErrors.__init__ with "errors = args[0]": no copy.
MultipleErrors___init___alias(id, args, heap) ==
    LET errors == IF Len(args) > 0 THEN heap[args[1]] ELSE <<>>
        ref == IF Len(args) > 0 THEN args[1] ELSE Len(heap) + 1
        heap2 == IF Len(args) > 0 THEN heap ELSE Append(heap, errors)
        counter == Counter(errors)
        strerror == "Multiple errors occurred: " \o Counter___repr__(counter, heap)
    IN [ self |-> [BroadlinkException___init__(id, "MultipleErrors", <<PyStr(strerror)>>)
                     EXCEPT !.errors = ref],
         heap |-> heap2,
         counter |-> counter ]

MultipleErrors___init__(id, args, heap) ==
    LET errors == IF Len(args) > 0 THEN heap[args[1]] ELSE <<>>
        ref == Len(heap) + 1
        counter == Counter(errors)
        strerror == "Multiple errors occurred: " \o Counter___repr__(counter, heap)
    IN [ self |-> [BroadlinkException___init__(id, "MultipleErrors", <<PyStr(strerror)>>)
                     EXCEPT !.errors = ref],
         heap |-> Append(heap, errors),
         counter |-> counter ]

(***************************************************************************)
(* check_error(error), as one call and as the two steps a concurrent       *)
(* caller can be between: line 150 (unpack) and lines 151-152 (test and    *)
(* raise).                                                                 *)
(***************************************************************************)
\* Lines 151-152: the outcome once error_code is known.
check_error_outcome(id, error_code) ==
    IF error_code # 0
    THEN [outcome |-> "raise", value |-> exception(id, error_code)]
    ELSE [outcome |-> "return", value |-> PyNone]

check_error(id, error, order) ==
    LET u == struct_unpack_h(error, order)
    IN IF ~u.ok
       THEN [outcome |-> "raise", value |-> struct_error(id)]
       ELSE check_error_outcome(id, u.value)

(***************************************************************************)
(* The inputs the callers draw from.                                       *)
(***************************************************************************)
Callers == {1, 2}

Bytes == {0, 1, 127, 128, 253, 255}

RawInputs == UNION { [1..n -> Bytes] : n \in 0..MaxRawLen }

Codes == TableCodes \cup {0, 1, 11, -12, -513, 4000, -32768, 32767, 65533, -70000}

Messages == {"The device is offline", "Unknown error"}

\* Constructor argument tuples: none, a message, a code and a message, None and
\* a message, a code and two further arguments.
ArgTuples ==
    {<<>>}
    \cup { <<PyStr(m)>> : m \in Messages }
    \cup { <<PyInt(c), PyStr(m)>> : c \in {0, -3}, m \in Messages }
    \cup { <<PyNone, PyStr("Unknown error")>>,
           <<PyInt(-3), PyStr("The device is offline"), PyStr("retry")>> }

\* Three errors a batch operation has collected: two equal ones that are
\* distinct objects, and one of another kind with the same code and message.
ErrA1 == BroadlinkException___init__(1, "DeviceOfflineError",
            <<PyInt(-3), PyStr("The device is offline")>>)
ErrA2 == BroadlinkException___init__(2, "DeviceOfflineError",
            <<PyInt(-3), PyStr("The device is offline")>>)
ErrB == BroadlinkException___init__(3, "UnknownError",
            <<PyInt(-3), PyStr("The device is offline")>>)
Pool == {ErrA1, ErrA2, ErrB}

ErrorLists == UNION { [1..n -> Pool] : n \in 0..MaxLen }

\* The inputs of the concurrent callers.
ConcCodes == {-3, 0, 5}
ConcRaw == { <<>>, <<0, 0>>, <<253, 255>>, <<255, 253>>, <<1, 0, 0>> }
ConcLists == { <<>>, <<ErrA1, ErrA2, ErrB>> }

\* The identity of the k-th object a call creates: one that no object of
\* the pool has.  Objects of earlier calls are gone, so identities are reused.
NewId(k) == Cardinality(Pool) + k

NoFrame == [error |-> <<>>, error_code |-> 0]

\* Constructor calls: a kind and its arguments.
CtorInputs == [type : Kinds, args : ArgTuples]

\* What the sequential caller is started with: a code for exception(), bytes
\* for check_error(), a list for MultipleErrors(), two constructor calls or
\* two lists to compare, or nothing.
Inputs ==
    [kind : {"err_code"}, err_code : Codes]
    \cup [kind : {"error"}, error : RawInputs]
    \cup [kind : {"errors"}, errors : ErrorLists]
    \cup [kind : {"ctor"}, x : CtorInputs, y : CtorInputs]
    \cup [kind : {"errors_pair"}, x : ErrorLists, y : ErrorLists]
    \cup [kind : {"none"}]

(***************************************************************************)
(* The initial state: the module has been imported.                        *)
(***************************************************************************)
InitModule ==
    /\ BROADLINK_EXCEPTIONS = InitialTable
    /\ byteorder \in {"little", "big"}
    /\ pc = [t \in Callers |-> "idle"]
    /\ frame = [t \in Callers |-> NoFrame]
    /\ last = [op |-> "none"]
    /\ lists = <<>>

Init == InitModule /\ input \in Inputs

InitConc == InitModule /\ input = [kind |-> "none"]

(***************************************************************************)
(* The calls.  last records the call's arguments and outcome; lists holds  *)
(* the lists still reachable from it.                                      *)
(***************************************************************************)
\* exception(err_code) through a lookup that stores the fallback in the table
\* (BROADLINK_EXCEPTIONS.setdefault).
Call_exception_setdefault(t, err_code) ==
    /\ pc[t] = "idle"
    /\ last' = [op |-> "exception", caller |-> t, err_code |-> err_code,
                outcome |-> "return", value |-> exception(NewId(1), err_code)]
    /\ BROADLINK_EXCEPTIONS' =
         IF err_code \in DOMAIN BROADLINK_EXCEPTIONS
         THEN BROADLINK_EXCEPTIONS
         ELSE (err_code :> <<"UnknownError", "Unknown error">>) @@ BROADLINK_EXCEPTIONS
    /\ lists' = <<>>
    /\ UNCHANGED <<byteorder, pc, frame, input>>

\* exception(err_code)
Call_exception(t, err_code) ==
    /\ pc[t] = "idle"
    /\ last' = [op |-> "exception", caller |-> t, err_code |-> err_code,
                outcome |-> "return", value |-> exception(NewId(1), err_code)]
    /\ lists' = <<>>
    /\ UNCHANGED <<BROADLINK_EXCEPTIONS, byteorder, pc, frame, input>>

\* check_error(error), the whole call.
Call_check_error(t, error) ==
    /\ pc[t] = "idle"
    /\ LET r == check_error(NewId(1), error, byteorder)
       IN last' = [op |-> "check_error", caller |-> t, error |-> error,
                   outcome |-> r.outcome, value |-> r.value]
    /\ lists' = <<>>
    /\ UNCHANGED <<BROADLINK_EXCEPTIONS, byteorder, pc, frame, input>>

\* check_error(error), line 150: unpack, or leave with struct.error.
check_error_150(t, error) ==
    /\ pc[t] = "idle"
    /\ LET u == struct_unpack_h(error, byteorder)
       IN IF u.ok
          THEN /\ pc' = [pc EXCEPT ![t] = "151"]
               /\ frame' = [frame EXCEPT ![t] = [error |-> error, error_code |-> u.value]]
               /\ UNCHANGED <<last, lists>>
          ELSE /\ last' = [op |-> "check_error", caller |-> t, error |-> error,
                           outcome |-> "raise", value |-> struct_error(NewId(1))]
               /\ lists' = <<>>
               /\ UNCHANGED <<pc, frame>>
    /\ UNCHANGED <<BROADLINK_EXCEPTIONS, byteorder, input>>

\* check_error(error), lines 151-152: return, or raise exception(error_code).
check_error_151(t) ==
    /\ pc[t] = "151"
    /\ LET r == check_error_outcome(NewId(1), frame[t].error_code)
       IN last' = [op |-> "check_error", caller |-> t, error |-> frame[t].error,
                   outcome |-> r.outcome, value |-> r.value]
    /\ pc' = [pc EXCEPT ![t] = "idle"]
    /\ frame' = [frame EXCEPT ![t] = NoFrame]
    /\ lists' = <<>>
    /\ UNCHANGED <<BROADLINK_EXCEPTIONS, byteorder, input>>

\* errs = list(s); MultipleErrors(errs): the caller's list is lists[1].
Call_MultipleErrors(t, s) ==
    /\ pc[t] = "idle"
    /\ LET r == MultipleErrors___init__(NewId(1), <<1>>, <<s>>)
       IN /\ last' = [op |-> "MultipleErrors", caller |-> t, arg |-> s, list_ref |-> 1,
                      outcome |-> "return", value |-> r.self, counter |-> r.counter]
          /\ lists' = r.heap
    /\ UNCHANGED <<BROADLINK_EXCEPTIONS, byteorder, pc, frame, input>>

\* MultipleErrors()
Call_MultipleErrors_noargs(t) ==
    /\ pc[t] = "idle"
    /\ LET r == MultipleErrors___init__(NewId(1), <<>>, <<>>)
       IN /\ last' = [op |-> "MultipleErrors", caller |-> t, arg |-> <<>>, list_ref |-> 0,
                      outcome |-> "return", value |-> r.self, counter |-> r.counter]
          /\ lists' = r.heap
    /\ UNCHANGED <<BROADLINK_EXCEPTIONS, byteorder, pc, frame, input>>

\* errs.append(e): the caller goes on using the list it passed.
List_append(t, e) ==
    /\ pc[t] = "idle"
    /\ last.op = "MultipleErrors" /\ last.caller = t /\ last.list_ref # 0
    /\ Len(lists[last.list_ref]) < MaxLen
    /\ lists' = [lists EXCEPT ![last.list_ref] = Append(@, e)]
    /\ UNCHANGED <<BROADLINK_EXCEPTIONS, byteorder, pc, frame, last, input>>

\* errs.pop()
List_pop(t) ==
    /\ pc[t] = "idle"
    /\ last.op = "MultipleErrors" /\ last.caller = t /\ last.list_ref # 0
    /\ Len(lists[last.list_ref]) > 0
    /\ lists' = [lists EXCEPT ![last.list_ref] = SubSeq(@, 1, Len(@) - 1)]
    /\ UNCHANGED <<BROADLINK_EXCEPTIONS, byteorder, pc, frame, last, input>>

\* str(e) of the error the last call returned or raised.
Call_str(t) ==
    /\ pc[t] = "idle"
    /\ last.op \in {"exception", "check_error", "MultipleErrors"}
    /\ last.outcome = "raise" \/ last.op # "check_error"
    /\ last.value.type \in BroadlinkClasses
    /\ last' = [op |-> "str", caller |-> t, of |-> last, self |-> last.value,
                value |-> str(last.value)]
    /\ UNCHANGED <<BROADLINK_EXCEPTIONS, byteorder, pc, frame, lists, input>>

\* str(type(*args))
Call_str_new(t, type, args) ==
    /\ pc[t] = "idle"
    /\ LET self == BroadlinkException___init__(NewId(1), type, args)
       IN last' = [op |-> "str", caller |-> t,
                   of |-> [op |-> "constructor", type |-> type, args |-> args],
                   self |-> self, value |-> str(self)]
    /\ lists' = <<>>
    /\ UNCHANGED <<BROADLINK_EXCEPTIONS, byteorder, pc, frame, input>>

\* a = x.type(*x.args); b = y.type(*y.args); a == b, b == a, hash(a), hash(b)
Call_eq(t, x, y) ==
    /\ pc[t] = "idle"
    /\ LET a == BroadlinkException___init__(NewId(1), x.type, x.args)
           b == BroadlinkException___init__(NewId(2), y.type, y.args)
       IN last' = [op |-> "eq", caller |-> t, of |-> "constructor", x |-> x, y |-> y,
                   self |-> a, other |-> b,
                   value |-> BroadlinkException___eq__(a, b),
                   reflected |-> BroadlinkException___eq__(b, a),
                   hash_self |-> BroadlinkException___hash__(a),
                   hash_other |-> BroadlinkException___hash__(b)]
    /\ lists' = <<>>
    /\ UNCHANGED <<BROADLINK_EXCEPTIONS, byteorder, pc, frame, input>>

\* a = x.type(*x.args); a == a
Call_eq_same(t, x) ==
    /\ pc[t] = "idle"
    /\ LET a == BroadlinkException___init__(NewId(1), x.type, x.args)
       IN last' = [op |-> "eq", caller |-> t, of |-> "constructor", x |-> x, y |-> x,
                   self |-> a, other |-> a,
                   value |-> BroadlinkException___eq__(a, a),
                   reflected |-> BroadlinkException___eq__(a, a),
                   hash_self |-> BroadlinkException___hash__(a),
                   hash_other |-> BroadlinkException___hash__(a)]
    /\ lists' = <<>>
    /\ UNCHANGED <<BROADLINK_EXCEPTIONS, byteorder, pc, frame, input>>

\* a = MultipleErrors(list(s1)); b = MultipleErrors(list(s2)); a == b, ...
Call_eq_MultipleErrors(t, s1, s2) ==
    /\ pc[t] = "idle"
    /\ LET r1 == MultipleErrors___init__(NewId(1), <<1>>, <<s1, s2>>)
           r2 == MultipleErrors___init__(NewId(2), <<2>>, r1.heap)
           a == r1.self
           b == r2.self
       IN /\ last' = [op |-> "eq", caller |-> t, of |-> "MultipleErrors",
                      x |-> s1, y |-> s2, self |-> a, other |-> b,
                      value |-> BroadlinkException___eq__(a, b),
                      reflected |-> BroadlinkException___eq__(b, a),
                      hash_self |-> BroadlinkException___hash__(a),
                      hash_other |-> BroadlinkException___hash__(b)]
          /\ lists' = r2.heap
    /\ UNCHANGED <<BROADLINK_EXCEPTIONS, byteorder, pc, frame, input>>

(***************************************************************************)
(* One caller using the module on the arguments it was started with.       *)
(***************************************************************************)
Next ==
    \/ input.kind = "err_code" /\ Call_exception(1, input.err_code)
    \/ input.kind = "error" /\ Call_check_error(1, input.error)
    \/ input.kind = "errors" /\ Call_MultipleErrors(1, input.errors)
    \/ input.kind = "none" /\ Call_MultipleErrors_noargs(1)
    \/ \E e \in Pool : List_append(1, e)
    \/ List_pop(1)
    \/ Call_str(1)
    \/ input.kind = "ctor" /\ Call_str_new(1, input.x.type, input.x.args)
    \/ input.kind = "ctor" /\ Call_eq(1, input.x, input.y)
    \/ input.kind = "ctor" /\ Call_eq_same(1, input.x)
    \/ input.kind = "errors_pair" /\ Call_eq_MultipleErrors(1, input.x, input.y)

Spec == Init /\ [][Next]_vars

(***************************************************************************)
(* Two callers, interleaved between the lines of check_error, in any order *)
(* and with any arguments.                                                 *)
(***************************************************************************)
NextConc ==
    \E t \in Callers :
        \/ \E c \in ConcCodes : Call_exception(t, c)
        \/ \E raw \in ConcRaw : check_error_150(t, raw)
        \/ check_error_151(t)
        \/ \E s \in ConcLists : Call_MultipleErrors(t, s)
        \/ \E e \in Pool : List_append(t, e)

SpecConc == InitConc /\ [][NextConc]_vars

(***************************************************************************)
(* The properties.                                                         *)
(***************************************************************************)
\* The equality contract: the same kind and the same constructor arguments.
SameKindAndArgs(a, b) == a.type = b.type /\ a.args = b.args

\* The number of elements of s that the contract makes equal to e.
Occurrences(s, e) == Cardinality({ k \in 1..Len(s) : SameKindAndArgs(s[k], e) })

RECURSIVE SumCounts(_)
SumCounts(counter) ==
    IF Len(counter) = 0 THEN 0 ELSE counter[1].count + SumCounts(Tail(counter))

\* Two sequences of errors that are equal element by element.
SameSequence(s1, s2) ==
    /\ Len(s1) = Len(s2)
    /\ \A k \in 1..Len(s1) : SameKindAndArgs(s1[k], s2[k])

\* C1: for each of the 19 codes of the table, exception(code) returns an error
\* of the kind the table maps the code to, with the table's message and with
\* errno equal to the code.
C1_TableCodesClassified ==
    /\ Cardinality(DOMAIN BROADLINK_EXCEPTIONS) = 19
    /\ (last.op = "exception" /\ last.err_code \in TableCodes) =>
          /\ last.outcome = "return"
          /\ last.value.type = BROADLINK_EXCEPTIONS[last.err_code][1]
          /\ last.value.strerror = BROADLINK_EXCEPTIONS[last.err_code][2]
          /\ last.value.errno = PyInt(last.err_code)
          /\ (last.err_code = -3 =>
                /\ last.value.type = "DeviceOfflineError"
                /\ last.value.strerror = "The device is offline")

C1_Witness ==
    /\ last.op = "exception"
    /\ last.err_code = -4012
    /\ last.value.type = "AuthorizationError"
    /\ last.value.strerror = "Device control ID error"

\* C2: for every code that is not a key of the table, 0 and positive codes
\* included, exception(code) returns (never raises) an UnknownError with the
\* message "Unknown error" and errno equal to the code.
C2_OtherCodesUnknown ==
    (last.op = "exception" /\ last.err_code \notin TableCodes) =>
        /\ last.outcome = "return"
        /\ last.value.type = "UnknownError"
        /\ last.value.strerror = "Unknown error"
        /\ last.value.errno = PyInt(last.err_code)

C2_Witness ==
    /\ last.op = "exception"
    /\ last.err_code = 0
    /\ last.value.type = "UnknownError"
    /\ last.value.errno = PyInt(0)

\* C3: check_error decodes a 2-byte input as the little-endian signed 16-bit
\* integer v; it returns iff v = 0 and otherwise raises exception(v), whose
\* errno is v.
C3_DecodesLittleEndian ==
    (last.op = "check_error" /\ Len(last.error) = 2) =>
        LET v == Signed16(last.error[1] + 256 * last.error[2])
        IN /\ (last.outcome = "return") <=> (v = 0)
           /\ v # 0 =>
                /\ last.outcome = "raise"
                /\ SameKindAndArgs(last.value, exception(last.value.id, v))
                /\ last.value.errno = PyInt(v)

\* C4: check_error on an input that is not exactly 2 bytes long raises a
\* decoding error (struct.error): it never returns and never raises an error
\* of the BroadlinkException classes, whatever the bytes are.
C4_WrongLengthIsDecodingError ==
    (last.op = "check_error" /\ Len(last.error) # 2) =>
        /\ last.outcome = "raise"
        /\ last.value.type = "struct.error"
        /\ last.value.type \notin BroadlinkClasses

C4_Witness ==
    /\ last.op = "check_error"
    /\ last.error = <<253, 255, 0>>
    /\ last.outcome = "raise"
    /\ last.value.type = "struct.error"

\* C5: two non-aggregate errors are equal iff they were constructed with the
\* same kind and the same arguments; errors of different kinds are never
\* equal; equality is symmetric, and an error equals itself.
C5_EqualityContract ==
    (last.op = "eq" /\ last.of = "constructor") =>
        /\ last.value <=> (last.x.type = last.y.type /\ last.x.args = last.y.args)
        /\ last.x.type # last.y.type => ~last.value
        /\ last.value = last.reflected
        /\ last.self.id = last.other.id => last.value

C5_Witness ==
    /\ last.op = "eq"
    /\ last.of = "constructor"
    /\ last.x.type = "DeviceOfflineError"
    /\ last.y.type = "UnknownError"
    /\ last.x.args = <<PyInt(-3), PyStr("The device is offline")>>
    /\ last.y.args = last.x.args
    /\ ~last.value

\* C6: MultipleErrors(s) counts each distinct error of s once, with the number
\* of its occurrences in s, so the counts add up to the length of s; and its
\* errors attribute holds the elements of s in order, also after the caller
\* has changed the list it passed.
C6_CountsAndExposedSequence ==
    last.op = "MultipleErrors" =>
        LET counter == last.counter
            s == last.arg
        IN /\ \A i, j \in 1..Len(counter) :
                  i # j => ~SameKindAndArgs(counter[i].key, counter[j].key)
           /\ \A i \in 1..Len(counter) :
                  counter[i].count = Occurrences(s, counter[i].key)
           /\ \A k \in 1..Len(s) :
                  \E i \in 1..Len(counter) : SameKindAndArgs(counter[i].key, s[k])
           /\ SumCounts(counter) = Len(s)
           /\ lists[last.value.errors] = s

C6_Witness ==
    /\ last.op = "MultipleErrors"
    /\ last.arg = <<ErrA1, ErrA2, ErrB>>
    /\ Len(last.counter) = 2
    /\ last.counter[1].count = 2
    /\ last.counter[2].count = 1
    /\ lists[last.list_ref] = <<ErrA1, ErrA2>>
    /\ lists[last.value.errors] = <<ErrA1, ErrA2, ErrB>>

\* C7: str(e) is "[Errno <code>] <message>" when e carries a code, code 0
\* included, and the message alone when it carries none (a message only, no
\* arguments, None as the code, or a MultipleErrors); every error that
\* exception() returns or check_error() raises displays its code.
C7_DisplayForm ==
    last.op = "str" =>
        LET e == last.self
            n == Len(e.args)
            message ==
                IF n = 0 THEN ""
                ELSE IF n = 1 THEN e.args[1].str
                ELSE IF n = 2 THEN e.args[2].str
                ELSE e.args[2].str \o ": " \o e.args[3].str
        IN /\ IF e.type # "MultipleErrors" /\ n >= 2 /\ e.args[1].tag = "int"
              THEN last.value = "[Errno " \o ToString(e.args[1].int) \o "] " \o message
              ELSE last.value = message
           /\ last.of.op = "exception" =>
                last.value = "[Errno " \o ToString(last.of.err_code) \o "] " \o e.strerror
           /\ last.of.op = "check_error" =>
                /\ e.errno.tag = "int"
                /\ last.value = "[Errno " \o ToString(e.errno.int) \o "] " \o e.strerror

C7_Witness ==
    /\ last.op = "str"
    /\ last.of.op = "exception"
    /\ last.of.err_code = 0
    /\ last.value = "[Errno 0] Unknown error"

\* C8: the table holds its initial 19 entries after any interleaving of
\* exception(), check_error() (returning, raising, or given a wrong length)
\* and MultipleErrors(); so exception(code) returns the error the initial
\* table gives, whatever ran before or runs concurrently.
C8_TableNeverChanges ==
    /\ BROADLINK_EXCEPTIONS = InitialTable
    /\ Cardinality(DOMAIN BROADLINK_EXCEPTIONS) = 19
    /\ last.op = "exception" =>
          /\ last.value.type =
               (IF last.err_code \in TableCodes
                THEN InitialTable[last.err_code][1] ELSE "UnknownError")
          /\ last.value.args =
               << PyInt(last.err_code),
                  PyStr(IF last.err_code \in TableCodes
                        THEN InitialTable[last.err_code][2] ELSE "Unknown error") >>

C8_Witness ==
    /\ last.op = "exception"
    /\ last.caller = 2
    /\ last.err_code = 5
    /\ pc[1] = "151"
    /\ frame[1].error_code # 0
    /\ BROADLINK_EXCEPTIONS = InitialTable

\* C9: two MultipleErrors are equal iff they were constructed from the same
\* ordered sequence of errors.
C9_AggregateEqualityBySequence ==
    (last.op = "eq" /\ last.of = "MultipleErrors") =>
        (last.value <=> SameSequence(last.x, last.y))

\* C10: equal errors have equal hashes, and the hash depends on the kind and
\* the arguments only, not on the object; so the count of MultipleErrors has
\* one entry per distinct (kind, arguments), never two entries for equal
\* errors and never one entry for errors of different kinds.
C10_HashConsistentWithEquality ==
    /\ last.op = "eq" =>
          /\ last.value => last.hash_self = last.hash_other
          /\ SameKindAndArgs(last.self, last.other) => last.hash_self = last.hash_other
          /\ last.hash_self = BroadlinkException___hash__([last.self EXCEPT !.id = 0])
    /\ last.op = "MultipleErrors" =>
          /\ Len(last.counter) =
               Cardinality({ <<last.arg[k].type, last.arg[k].args>> : k \in 1..Len(last.arg) })
          /\ \A i \in 1..Len(last.counter) :
               last.counter[i].count =
                 Cardinality({ k \in 1..Len(last.arg) :
                                 /\ last.arg[k].type = last.counter[i].key.type
                                 /\ last.arg[k].args = last.counter[i].key.args })

C10_Witness ==
    /\ last.op = "MultipleErrors"
    /\ last.arg = <<ErrA1, ErrB, ErrA2>>
    /\ Len(last.counter) = 2
    /\ last.counter[1].key.type = "DeviceOfflineError"
    /\ last.counter[1].count = 2
    /\ last.counter[2].key.type = "UnknownError"

====
